---- MODULE Spec2Model ----
(***************************************************************************)
(* Model of backtrader's VisualChart broker adapter (VCBroker,            *)
(* src/backtrader/brokers/vcbroker.py).                                    *)
(*                                                                         *)
(* Two threads share the adapter: the caller thread (buy/sell -> submit,   *)
(* getposition, next, get_notification) and the venue's callback thread    *)
(* (__call__ and the On... COM events).  Each handler is cut into steps at *)
(* the points where it touches shared state: the two locks, the registry,  *)
(* a position, an order's status, the notification deque.                  *)
(***************************************************************************)
EXTENDS Integers, Sequences, FiniteSets, TLC

(* ------------------------------ bounds -------------------------------- *)
MaxOrders == 2
MaxEvents == 2

(* ------------------------------ inputs -------------------------------- *)
Instruments == {"X"}
OrderSizes == {8}
\* What the venue reports for a fill: <<volume, price>>
FillQuotes == {<<5, 100>>, <<8, 110>>}
ExtIds == {0}
Accounts == <<"ACC1", "ACC2">>
Balances == {[Cash |-> 50, NetWorth |-> 70], [Cash |-> 60, NetWorth |-> 90]}
ParamAccounts == {"None", "ACC2", "ACC9"}
OrderKinds == {"InMarket", "Cancelled", "Partial", "Total"}
NoOpKinds == {"Modified", "NewLocation", "OpenPositions", "ClosedOperations",
              "ShutDown", "Internal"}

NoOrder == 0
NoId == -1

VARIABLES
    p_account,      \* self.p.account
    acc_name,       \* self._acc_name
    cash, value,    \* self.cash, self.value
    startingcash, startingvalue,
    positions,      \* self.positions: instrument -> [size, price]
    lock_pos,       \* holder of self._lock_pos: "free", "caller", "venue"
    lock_orders,    \* holder of self._lock_orders
    orderbyid,      \* self.orderbyid: venue identifier -> order
    notifs,         \* self.notifs
    orders,         \* the engine's order objects, by creation index
    sent,           \* identifiers the venue has returned from SendOrder
    cpc, cord, cgot, cres, polling,     \* caller thread
    vpc, vev, border, vloc,             \* venue thread
    vco, vargs,                         \* the venue request _makeorder built
    enq, popped, evs, fillsum, run      \* history

adapter == <<p_account, acc_name, cash, value, startingcash, startingvalue,
             positions, lock_pos, lock_orders, orderbyid, notifs, orders, sent>>
caller == <<cpc, cord, cgot, cres, polling>>
venue == <<vpc, vev, border, vloc>>
request == <<vco, vargs>>
history == <<enq, popped, evs, fillsum, run>>
vars == <<adapter, caller, venue, request, history>>

(* ----------------------------- arithmetic ----------------------------- *)
Abs(x) == IF x < 0 THEN -x ELSE x
Min(a, b) == IF a < b THEN a ELSE b
Sign(x) == IF x < 0 THEN -1 ELSE IF x > 0 THEN 1 ELSE 0

RECURSIVE GCD(_, _)
GCD(a, b) == IF b = 0 THEN a ELSE GCD(b, a % b)

\* Prices and monetary figures are exact fractions n/d, d > 0, in lowest terms.
Norm(n, d) == LET g == GCD(Abs(n), d) IN [n |-> n \div g, d |-> d \div g]
RatInt(i) == [n |-> i, d |-> 1]
RatScale(k, r) == Norm(k * r.n, r.d)
RatSub(a, b) == Norm(a.n * b.d - b.n * a.d, a.d * b.d)

(* ------------------- commission scheme (VCCommInfo) -------------------- *)
\* VCCommInfo.getoperationcost / getvaluesize: abs(size) * price
getoperationcost(size, price) == RatScale(Abs(size), price)
getvaluesize(size, price) == RatScale(Abs(size), price)
\* CommInfoBase with the default scheme: no commission, P&L per unit of size
getcommission(size, price) == RatInt(0)
\* (a variant that forgets the entry price)
profitandloss_gross(size, price, newprice) == RatScale(size, newprice)
profitandloss(size, price, newprice) == RatScale(size, RatSub(newprice, price))

(* --------------------------- position ledger --------------------------- *)
NoPosition == [size |-> 0, price |-> RatInt(0)]

\* The part of a fill of signed size d that reduces a position of signed
\* size s toward zero, and the remainder, which opens.
ClosedQty(s, d) == IF s * d < 0 THEN Sign(d) * Min(Abs(d), Abs(s)) ELSE 0
OpenedQty(s, d) == d - ClosedQty(s, d)

\* (a variant that takes the plain mean of the old price and the fill price)
NewAvgPrice_plainmean(oldprice, s, d, p) ==
    IF d - ClosedQty(s, d) = 0 THEN oldprice
    ELSE IF s + ClosedQty(s, d) = 0 THEN RatInt(p)
    ELSE Norm(oldprice.n + p * oldprice.d, 2 * oldprice.d)
\* Weighted-average-cost blending over the opened part; a pure reduction
\* keeps the stored average price.
NewAvgPrice(oldprice, s, d, p) ==
    LET closed == ClosedQty(s, d)
        opened == d - closed
        kept == Abs(s + closed)
    IN  IF opened = 0 THEN oldprice
        ELSE Norm(oldprice.n * kept + Abs(opened) * p * oldprice.d,
                  oldprice.d * (kept + Abs(opened)))

(* ------------------------------- orders -------------------------------- *)
NewOrder(data, side, size) ==
    [data |-> data, side |-> side, size |-> size, status |-> "Created",
     vcorder |-> NoId, executed |-> <<>>]

issell(o) == o.side = "Sell"

\* Order.submit / accept / cancel / partial / completed: set the status
SetStatus(o, st) == [o EXCEPT !.status = st]

\* Order.execute: append a fill entry
execute(o, bit) == [o EXCEPT !.executed = Append(@, bit)]

(* ---------------------------- notifications ---------------------------- *)
Sentinel == [ord |-> NoOrder, status |-> "None"]
\* order.clone(): the snapshot carries the status the order has when cloned
clone(i) == [ord |-> i, status |-> orders[i].status]
\* (a variant that pushes at the head, as appendleft would)
notify_front(q, i) == <<clone(i)>> \o q
notify(q, i) == Append(q, clone(i))
\* (a variant of next that appends nothing)
marknext_nothing(q) == q
\* self.notifs.append(None)
marknext(q) == Append(q, Sentinel)

(* ------------------------------ registry ------------------------------- *)
\* (a variant that rebuilds the registry around the new entry)
Insert_only(reg, oid, i) == [k \in {oid} |-> i]
\* self.orderbyid[oid] = order
Insert(reg, oid, i) ==
    [k \in DOMAIN reg \cup {oid} |-> IF k = oid THEN i ELSE reg[k]]
\* (a variant that falls back to a registered order on a miss)
Lookup_fallback(reg, oid) ==
    IF oid \in DOMAIN reg THEN reg[oid]
    ELSE IF DOMAIN reg = {} THEN NoOrder
    ELSE reg[CHOOSE k \in DOMAIN reg : TRUE]
\* self.orderbyid[Order.OrderId], NoOrder standing for the KeyError
Lookup(reg, oid) == IF oid \in DOMAIN reg THEN reg[oid] ELSE NoOrder

\* Entering and leaving a with block on a lock, for thread t
Acquire(t) == t
\* (a variant that leaves the block without releasing)
Release_kept(t) == t
Release(t) == "free"

(* ------------------------ request translation ------------------------- *)
\* An optional value: <<>> is None, <<x>> is x
None == <<>>
Some(x) == <<x>>
\* Python's `a or b` on optional numbers: None and 0 are false
Or(a, b) == IF a = None \/ a = Some(0) THEN b ELSE a

Exectypes == {"Market", "Close", "Limit", "Stop", "StopLimit"}
\* Order.DAY, the validity of exactly one trading day
DAY == 1
\* What a caller passes as valid: None, a date, or a timedelta
Validities ==
    {[type |-> "None", at |-> 0]}
        \cup {[type |-> "date", at |-> t] : t \in {30}}
        \cup {[type |-> "timedelta", at |-> n] : n \in {DAY, 2, 5}}
\* datetime.now() at the call
Clock == {20, 21}
\* Custom arguments: none, HideVolume=1, TimeRestriction=TR_Date, or a name
\* the request does not define
Extras == {"None", "HideVolume", "TimeRestriction", "Unknown"}

\* self._otypes, self._osides, self._otrestriction
otypes(exectype) ==
    CASE exectype = "Market" -> "OT_Market"
      [] exectype = "Close" -> "OT_Market"
      [] exectype = "Limit" -> "OT_Limit"
      [] exectype = "Stop" -> "OT_StopMarket"
      [] exectype = "StopLimit" -> "OT_StopLimit"
osides(ordtype) == IF ordtype = "Buy" THEN "OS_Buy" ELSE "OS_Sell"
otrestriction(t) ==
    CASE t = "T_None" -> "TR_NoRestriction"
      [] t = "T_Date" -> "TR_Date"
      [] t = "T_Close" -> "TR_CloseAuction"
      [] t = "T_Day" -> "TR_Session"

\* (a variant that treats every timedelta as a date offset)
IsDay_never(valid) == FALSE
\* valid == Order.DAY
IsDay(valid) == valid.at = DAY

\* order.TimeRestriction and order.ValidDate, lines 265-282
TimeRestrictionOf(exectype, valid, now) ==
    IF exectype = "Close" THEN otrestriction("T_Close")
    ELSE IF valid.type = "None" THEN otrestriction("T_None")
    ELSE IF valid.type = "date" THEN otrestriction("T_Date")
    ELSE IF IsDay(valid) THEN otrestriction("T_Day")
    ELSE otrestriction("T_Date")
ValidDateOf(exectype, valid, now) ==
    IF exectype = "Close" THEN None
    ELSE IF valid.type = "None" THEN None
    ELSE IF valid.type = "date" THEN Some(valid.at)
    ELSE IF IsDay(valid) THEN None
    ELSE Some(now + valid.at)

\* order.Price and order.StopPrice, lines 251-263
PriceOf(exectype, price, plimit) ==
    CASE exectype = "Limit" -> Or(price, plimit)
      [] exectype = "StopLimit" -> plimit
      [] OTHER -> Some(0)
StopPriceOf(exectype, price) ==
    IF exectype \in {"Stop", "StopLimit"} THEN price ELSE Some(0)

\* for k in kwargs: if hasattr(order, k): setattr(order, k, kwargs[k])
ApplyExtras(order, extra) ==
    CASE extra = "HideVolume" -> [order EXCEPT !.HideVolume = 1]
      [] extra = "TimeRestriction" -> [order EXCEPT !.TimeRestriction = "TR_Date"]
      [] OTHER -> order

makeorder(ordtype, data, size, price, plimit, exectype, valid, tradeid, extra, now) ==
    ApplyExtras(
        [Account |-> acc_name,
         SymbolCode |-> data,
         OrderType |-> otypes(exectype),
         OrderSide |-> osides(ordtype),
         VolumeRestriction |-> "VR_NoRestriction",
         HideVolume |-> 0,
         MinVolume |-> 0,
         UserOrderId |-> "",
         ExtendedInfo |-> IF tradeid # 0 THEN Some(tradeid) ELSE None,
         Volume |-> Abs(size),
         StopPrice |-> StopPriceOf(exectype, price),
         Price |-> PriceOf(exectype, price, plimit),
         TimeRestriction |-> TimeRestrictionOf(exectype, valid, now),
         ValidDate |-> ValidDateOf(exectype, valid, now)],
        extra)


(* ------------------------------ initial state -------------------------- *)
NoEvent == [kind |-> "None", oid |-> NoId, vol |-> 0, price |-> 0]
NoLocals == [size |-> 0, pprice_orig |-> RatInt(0), oldsize |-> 0]
Added(q, q2) == SubSeq(q2, Len(q) + 1, Len(q2))

\* The fills that built the present position from the last time it was
\* flat: their summed size and summed size * price; pure while none of them
\* reduced it
NoRun == [cost |-> 0, qty |-> 0, pure |-> TRUE]
RunAfter(r, s, d, p) ==
    IF s = 0 THEN [cost |-> Abs(d) * p, qty |-> Abs(d), pure |-> TRUE]
    ELSE IF s * d > 0
    THEN [cost |-> r.cost + Abs(d) * p, qty |-> r.qty + Abs(d), pure |-> r.pure]
    ELSE IF s + d = 0 THEN NoRun
    ELSE IF (s + d) * s < 0
    THEN [cost |-> Abs(s + d) * p, qty |-> Abs(s + d), pure |-> TRUE]
    ELSE [cost |-> 0, qty |-> Abs(s + d), pure |-> FALSE]

\* VCBroker.__init__
Init ==
    /\ p_account \in ParamAccounts
    /\ acc_name = "None"
    /\ cash = 0 /\ value = 0 /\ startingcash = 0 /\ startingvalue = 0
    /\ positions = [i \in Instruments |-> NoPosition]
    /\ lock_pos = "free" /\ lock_orders = "free"
    /\ orderbyid = [k \in {} |-> NoOrder]
    /\ notifs = <<>>
    /\ orders = <<>>
    /\ sent = {}
    /\ cpc = "idle" /\ cord = NoOrder /\ cgot = NoPosition /\ cres = "ok"
    /\ polling = FALSE
    /\ vpc = "start" /\ vev = NoEvent /\ border = NoOrder /\ vloc = NoLocals
    /\ vco = None /\ vargs = None
    /\ enq = <<>> /\ popped = <<>> /\ evs = <<>>
    /\ fillsum = [i \in Instruments |-> 0]
    /\ run = [i \in Instruments |-> NoRun]

(* ------------------------------ caller thread -------------------------- *)
\* The venue's SendOrder: a fresh identifier
FreshId == Cardinality(sent) + 1

\* (a variant that swallows the exception and goes on)
AfterSend_swallowed(sendok) == "insert"
\* Where submit continues after SendOrder: an exception leaves submit
AfterSend(sendok) == IF sendok THEN "insert" ELSE "idle"

\* buy / sell -> _makeorder -> submit, up to and including SendOrder, which
\* returns an identifier (sendok) or raises.
submit(data, side, size, sendok) ==
    /\ cpc = "idle"
    /\ ~polling
    /\ Len(orders) < MaxOrders
    /\ LET o == SetStatus(NewOrder(data, side, size), "Submitted")
       IN  orders' = Append(orders,
                        [o EXCEPT !.vcorder = IF sendok THEN FreshId ELSE NoId])
    /\ sent' = IF sendok THEN sent \cup {FreshId} ELSE sent
    /\ cpc' = AfterSend(sendok)
    /\ cord' = IF AfterSend(sendok) = "idle" THEN NoOrder ELSE Len(orders) + 1
    /\ cres' = IF sendok THEN "ok" ELSE "SendError"
    /\ evs' = Append(evs, <<>>)
    /\ UNCHANGED <<p_account, acc_name, cash, value, startingcash, startingvalue,
                   positions, lock_pos, lock_orders, orderbyid, notifs>>
    /\ UNCHANGED <<cgot, polling>>
    /\ UNCHANGED venue
    /\ UNCHANGED request
    /\ UNCHANGED <<enq, popped, fillsum, run>>

buy(data, size, sendok) == submit(data, "Buy", size, sendok)
sell(data, size, sendok) == submit(data, "Sell", size, sendok)

\* with self._lock_orders: self.orderbyid[oid] = order
submit_insert ==
    /\ cpc = "insert"
    /\ lock_orders = "free"
    /\ lock_orders' = Acquire("caller")
    /\ orderbyid' = Insert(orderbyid, orders[cord].vcorder, cord)
    /\ cpc' = "unlock"
    /\ UNCHANGED <<p_account, acc_name, cash, value, startingcash, startingvalue,
                   positions, lock_pos, notifs, orders, sent>>
    /\ UNCHANGED <<cord, cgot, cres, polling>>
    /\ UNCHANGED venue
    /\ UNCHANGED request
    /\ UNCHANGED history

submit_unlock ==
    /\ cpc = "unlock"
    /\ lock_orders' = Release("caller")
    /\ cpc' = "notify"
    /\ UNCHANGED <<p_account, acc_name, cash, value, startingcash, startingvalue,
                   positions, lock_pos, orderbyid, notifs, orders, sent>>
    /\ UNCHANGED <<cord, cgot, cres, polling>>
    /\ UNCHANGED venue
    /\ UNCHANGED request
    /\ UNCHANGED history

\* self.notify(order); return order
submit_notify ==
    /\ cpc = "notify"
    /\ notifs' = notify(notifs, cord)
    /\ enq' = enq \o Added(notifs, notifs')
    /\ evs' = [evs EXCEPT ![cord] = Append(@, "Submit")]
    /\ cpc' = "idle"
    /\ cord' = NoOrder
    /\ UNCHANGED <<p_account, acc_name, cash, value, startingcash, startingvalue,
                   positions, lock_pos, lock_orders, orderbyid, orders, sent>>
    /\ UNCHANGED <<cgot, cres, polling>>
    /\ UNCHANGED venue
    /\ UNCHANGED request
    /\ UNCHANGED <<popped, fillsum, run>>

\* getposition(data, clone=True): the clone is taken under the ledger lock
getposition(data) ==
    /\ cpc = "idle"
    /\ ~polling
    /\ lock_pos = "free"
    /\ lock_pos' = Acquire("caller")
    /\ cgot' = positions[data]
    /\ cpc' = "gotposition"
    /\ UNCHANGED <<p_account, acc_name, cash, value, startingcash, startingvalue,
                   positions, lock_orders, orderbyid, notifs, orders, sent>>
    /\ UNCHANGED <<cord, cres, polling>>
    /\ UNCHANGED venue
    /\ UNCHANGED request
    /\ UNCHANGED history

getposition_return ==
    /\ cpc = "gotposition"
    /\ lock_pos' = Release("caller")
    /\ cgot' = NoPosition
    /\ cpc' = "idle"
    /\ UNCHANGED <<p_account, acc_name, cash, value, startingcash, startingvalue,
                   positions, lock_orders, orderbyid, notifs, orders, sent>>
    /\ UNCHANGED <<cord, cres, polling>>
    /\ UNCHANGED venue
    /\ UNCHANGED request
    /\ UNCHANGED history

\* next(): the engine marks the end of a tick, then drains the deque up to
\* the mark with get_notification
next ==
    /\ cpc = "idle"
    /\ ~polling
    /\ notifs' = marknext(notifs)
    /\ polling' = TRUE
    /\ UNCHANGED <<p_account, acc_name, cash, value, startingcash, startingvalue,
                   positions, lock_pos, lock_orders, orderbyid, orders, sent>>
    /\ UNCHANGED <<cpc, cord, cgot, cres>>
    /\ UNCHANGED venue
    /\ UNCHANGED request
    /\ UNCHANGED history

\* deque.popleft()
popleft_value(q) == Head(q)
popleft_rest(q) == Tail(q)

get_notification ==
    /\ cpc = "idle"
    /\ polling
    /\ IF notifs = <<>>
       THEN /\ cres' = "IndexError"
            /\ polling' = FALSE
            /\ UNCHANGED <<notifs, popped>>
       ELSE /\ popped' = IF popleft_value(notifs) = Sentinel THEN popped
                       ELSE Append(popped, popleft_value(notifs))
            /\ notifs' = popleft_rest(notifs)
            /\ polling' = (popleft_value(notifs) # Sentinel)
            /\ cres' = "ok"
    /\ UNCHANGED <<p_account, acc_name, cash, value, startingcash, startingvalue,
                   positions, lock_pos, lock_orders, orderbyid, orders, sent>>
    /\ UNCHANGED <<cpc, cord, cgot>>
    /\ UNCHANGED venue
    /\ UNCHANGED request
    /\ UNCHANGED <<enq, evs, fillsum, run>>

\* buy / sell building the venue request: vcorder = self._makeorder(...)
MakeOrder(ordtype, data, size, price, plimit, exectype, valid, tradeid, extra, now) ==
    /\ cpc = "idle"
    /\ ~polling
    /\ vco' = Some(makeorder(ordtype, data, size, price, plimit, exectype,
                             valid, tradeid, extra, now))
    /\ vargs' = Some([ordtype |-> ordtype, data |-> data, size |-> size,
                      price |-> price, plimit |-> plimit, exectype |-> exectype,
                      valid |-> valid, tradeid |-> tradeid, extra |-> extra,
                      now |-> now])
    /\ UNCHANGED adapter
    /\ UNCHANGED caller
    /\ UNCHANGED venue
    /\ UNCHANGED history

(* --------------------------- venue callback thread --------------------- *)
\* (a variant that forgets the side)
SignedSize_unsigned(o, vol) == vol
\* The signed size of a fill: the venue's volume, negated for a sell order
SignedSize(o, vol) == IF issell(o) THEN -vol ELSE vol

\* (a variant that takes the first account whatever the parameter says)
SelectAccount_first(param) == IF Len(Accounts) = 0 THEN 0 ELSE 1
\* The first account of trader.Accounts that __call__ accepts (0: none)
SelectAccount(param) ==
    LET hits == {i \in 1..Len(Accounts) : param = "None" \/ param = Accounts[i]}
    IN  IF hits = {} THEN 0 ELSE CHOOSE i \in hits : \A j \in hits : i <= j

\* __call__(trader): bal is the balance the venue reports for the account
Call(bal) ==
    /\ vpc = "start"
    /\ LET i == SelectAccount(p_account)
       IN  IF i = 0
           THEN UNCHANGED <<acc_name, cash, value, startingcash, startingvalue>>
           ELSE /\ acc_name' = Accounts[i]
                /\ cash' = bal.Cash /\ startingcash' = bal.Cash
                /\ value' = bal.NetWorth /\ startingvalue' = bal.NetWorth
    /\ vpc' = "idle"
    /\ UNCHANGED <<p_account, positions, lock_pos, lock_orders, orderbyid,
                   notifs, orders, sent>>
    /\ UNCHANGED caller
    /\ UNCHANGED request
    /\ UNCHANGED <<vev, border, vloc>>
    /\ UNCHANGED history

\* (a variant that takes events for every account once one is selected)
BalanceAccepted_any(name, Account) == name # "None"
\* Whether OnChangedBalance takes the event for Account
BalanceAccepted(name, Account) == ~(name = "None" \/ name # Account)

OnChangedBalance(Account, bal) ==
    /\ vpc = "idle"
    /\ IF BalanceAccepted(acc_name, Account)
          /\ \E i \in 1..Len(Accounts) : Accounts[i] = Account
       THEN cash' = bal.Cash /\ value' = bal.NetWorth
       ELSE UNCHANGED <<cash, value>>
    /\ UNCHANGED <<p_account, acc_name, startingcash, startingvalue, positions,
                   lock_pos, lock_orders, orderbyid, notifs, orders, sent>>
    /\ UNCHANGED caller
    /\ UNCHANGED request
    /\ UNCHANGED <<vpc, vev, border, vloc>>
    /\ UNCHANGED history

\* OnModifiedOrder, OnNewOrderLocation, OnChangedOpenPositions,
\* OnNewClosedOperations, OnServerShutDown, OnInternalEvent: the venue
\* thread enters the handler ...
OnNoOp(kind) ==
    /\ vpc = "idle"
    /\ vpc' = "pass"
    /\ vev' = [kind |-> kind, oid |-> NoId, vol |-> 0, price |-> 0]
    /\ UNCHANGED adapter
    /\ UNCHANGED caller
    /\ UNCHANGED request
    /\ UNCHANGED <<border, vloc>>
    /\ UNCHANGED history

\* (a variant in which a position snapshot resets the ledger)
Pass_refresh ==
    /\ vpc = "pass"
    /\ positions' = IF vev.kind = "OpenPositions"
                    THEN [i \in Instruments |-> NoPosition] ELSE positions
    /\ vpc' = "idle" /\ vev' = NoEvent
    /\ UNCHANGED <<p_account, acc_name, cash, value, startingcash, startingvalue,
                   lock_pos, lock_orders, orderbyid, notifs, orders, sent>>
    /\ UNCHANGED caller
    /\ UNCHANGED request
    /\ UNCHANGED <<border, vloc>>
    /\ UNCHANGED history
\* ... whose body is pass, and returns
Pass ==
    /\ vpc = "pass"
    /\ vpc' = "idle" /\ vev' = NoEvent
    /\ UNCHANGED adapter
    /\ UNCHANGED caller
    /\ UNCHANGED request
    /\ UNCHANGED <<border, vloc>>
    /\ UNCHANGED history

\* Events applied to registered orders so far
RECURSIVE Applied(_)
Applied(h) ==
    IF h = <<>> THEN 0
    ELSE Len(SelectSeq(Head(h), LAMBDA t : t # "Submit")) + Applied(Tail(h))

\* A handler's entry: with self._lock_orders: border = self.orderbyid[Order.OrderId]
\* (at most max events are applied to registered orders)
LocateWithin(max, kind, oid) ==
    /\ vpc = "idle"
    /\ oid \in sent \cup ExtIds
    /\ oid \in DOMAIN orderbyid => Applied(evs) < max
    /\ lock_orders = "free"
    /\ lock_orders' = Acquire("venue")
    /\ vev' = [kind |-> kind, oid |-> oid, vol |-> 0, price |-> 0]
    /\ border' = Lookup(orderbyid, oid)
    /\ vpc' = "located"
    /\ evs' = IF oid \in DOMAIN orderbyid
              THEN [evs EXCEPT ![orderbyid[oid]] = Append(@, kind)]
              ELSE evs
    /\ UNCHANGED <<p_account, acc_name, cash, value, startingcash, startingvalue,
                   positions, lock_pos, orderbyid, notifs, orders, sent>>
    /\ UNCHANGED caller
    /\ UNCHANGED request
    /\ UNCHANGED vloc
    /\ UNCHANGED <<enq, popped, fillsum, run>>

Locate(kind, oid) == LocateWithin(MaxEvents, kind, oid)

OnOrderInMarket(oid) == Locate("InMarket", oid)
OnCancelledOrder(oid) == Locate("Cancelled", oid)
OnPartialExecutedOrder(oid) == Locate("Partial", oid)
OnTotalExecutedOrder(oid) == Locate("Total", oid)

\* (a variant with the accepted and cancelled handlers' bodies swapped)
AfterLocate_swapped(kind) ==
    CASE kind = "InMarket" -> "cancel"
      [] kind = "Cancelled" -> "accept"
      [] OTHER -> "getposition"
\* Where a handler continues after a registry hit
AfterLocate(kind) ==
    CASE kind = "InMarket" -> "accept"
      [] kind = "Cancelled" -> "cancel"
      [] OTHER -> "getposition"

\* Leaving the with block; on KeyError the handler returns
Located ==
    /\ vpc = "located"
    /\ lock_orders' = Release("venue")
    /\ IF border = NoOrder
       THEN vpc' = "idle" /\ vev' = NoEvent
       ELSE vpc' = AfterLocate(vev.kind) /\ vev' = vev
    /\ UNCHANGED <<p_account, acc_name, cash, value, startingcash, startingvalue,
                   positions, lock_pos, orderbyid, notifs, orders, sent>>
    /\ UNCHANGED caller
    /\ UNCHANGED request
    /\ UNCHANGED <<border, vloc>>
    /\ UNCHANGED history

\* border.accept()
Accept ==
    /\ vpc = "accept"
    /\ orders' = [orders EXCEPT ![border] = SetStatus(@, "Accepted")]
    /\ vpc' = "notify"
    /\ UNCHANGED <<p_account, acc_name, cash, value, startingcash, startingvalue,
                   positions, lock_pos, lock_orders, orderbyid, notifs, sent>>
    /\ UNCHANGED caller
    /\ UNCHANGED request
    /\ UNCHANGED <<vev, border, vloc>>
    /\ UNCHANGED history

\* border.cancel()
Cancel ==
    /\ vpc = "cancel"
    /\ orders' = [orders EXCEPT ![border] = SetStatus(@, "Cancelled")]
    /\ vpc' = "notify"
    /\ UNCHANGED <<p_account, acc_name, cash, value, startingcash, startingvalue,
                   positions, lock_pos, lock_orders, orderbyid, notifs, sent>>
    /\ UNCHANGED caller
    /\ UNCHANGED request
    /\ UNCHANGED <<vev, border, vloc>>
    /\ UNCHANGED history

\* price = Order.Price; size = Order.Volume (negated for a sell);
\* position = self.getposition(border.data, clone=False): the with block of
\* getposition is entered ...
ExecGetPosition(vol, price) ==
    /\ vpc = "getposition"
    /\ lock_pos = "free"
    /\ lock_pos' = Acquire("venue")
    /\ vev' = [vev EXCEPT !.vol = vol, !.price = price]
    /\ vloc' = [vloc EXCEPT !.size = SignedSize(orders[border], vol)]
    /\ fillsum' = [fillsum EXCEPT ![orders[border].data] =
                      @ + (IF orders[border].side = "Sell" THEN -vol ELSE vol)]
    /\ vpc' = "gotposition"
    /\ UNCHANGED <<p_account, acc_name, cash, value, startingcash, startingvalue,
                   positions, lock_orders, orderbyid, notifs, orders, sent>>
    /\ UNCHANGED caller
    /\ UNCHANGED request
    /\ UNCHANGED border
    /\ UNCHANGED <<enq, popped, evs, run>>

\* ... and left before getposition returns the live position
PositionLockAfterGet(t) == Release(t)

ExecGotPosition ==
    /\ vpc = "gotposition"
    /\ lock_pos' = PositionLockAfterGet("venue")
    /\ vpc' = "update_size"
    /\ UNCHANGED <<p_account, acc_name, cash, value, startingcash, startingvalue,
                   positions, lock_orders, orderbyid, notifs, orders, sent>>
    /\ UNCHANGED caller
    /\ UNCHANGED request
    /\ UNCHANGED <<vev, border, vloc>>
    /\ UNCHANGED history

\* pprice_orig = position.price; position.update(size, price) writes the size ...
ExecUpdateSize ==
    /\ vpc = "update_size"
    /\ LET data == orders[border].data
       IN  /\ vloc' = [vloc EXCEPT !.pprice_orig = positions[data].price,
                                   !.oldsize = positions[data].size]
           /\ positions' = [positions EXCEPT ![data].size = @ + vloc.size]
           /\ run' = [run EXCEPT ![data] =
                         RunAfter(@, positions[data].size, vloc.size, vev.price)]
    /\ vpc' = "update_price"
    /\ UNCHANGED <<p_account, acc_name, cash, value, startingcash, startingvalue,
                   lock_pos, lock_orders, orderbyid, notifs, orders, sent>>
    /\ UNCHANGED caller
    /\ UNCHANGED request
    /\ UNCHANGED <<vev, border>>
    /\ UNCHANGED <<enq, popped, evs, fillsum>>

\* ... and then the average price
ExecUpdatePrice ==
    /\ vpc = "update_price"
    /\ positions' = [positions EXCEPT ![orders[border].data].price =
                        NewAvgPrice(vloc.pprice_orig, vloc.oldsize, vloc.size,
                                    vev.price)]
    /\ vpc' = "execute"
    /\ UNCHANGED <<p_account, acc_name, cash, value, startingcash, startingvalue,
                   lock_pos, lock_orders, orderbyid, notifs, orders, sent>>
    /\ UNCHANGED caller
    /\ UNCHANGED request
    /\ UNCHANGED <<vev, border, vloc>>
    /\ UNCHANGED history

\* (a variant that values the closed part at the fill price)
closedvalue_atfill(closed, pprice_orig, price) == getoperationcost(closed, price)
\* The figures OnExecutedOrder hands to border.execute
closedvalue(closed, pprice_orig, price) == getoperationcost(closed, pprice_orig)
openedvalue(opened, pprice_orig, price) == getoperationcost(opened, price)

ExecBit(size, price, pprice_orig, oldsize, psize, pprice) ==
    LET closed == ClosedQty(oldsize, size)
        opened == OpenedQty(oldsize, size)
    IN  [size |-> size, price |-> price,
         closed |-> closed,
         closedvalue |-> closedvalue(closed, pprice_orig, RatInt(price)),
         closedcomm |-> getcommission(closed, RatInt(price)),
         opened |-> opened,
         openedvalue |-> openedvalue(opened, pprice_orig, RatInt(price)),
         openedcomm |-> getcommission(opened, RatInt(price)),
         margin |-> getvaluesize(size, RatInt(price)),
         pnl |-> profitandloss(-closed, pprice_orig, RatInt(price)),
         psize |-> psize, pprice |-> pprice]

\* The status a fill sets: border.partial() or border.completed()
FillStatus(kind) == IF kind = "Partial" THEN "PartiallyFilled" ELSE "Completed"

\* border.execute(...); border.partial() / border.completed()
Execute ==
    /\ vpc = "execute"
    /\ LET pos == positions[orders[border].data]
           bit == ExecBit(vloc.size, vev.price, vloc.pprice_orig, vloc.oldsize,
                          pos.size, pos.price)
       IN  orders' = [orders EXCEPT ![border] =
                         SetStatus(execute(@, bit), FillStatus(vev.kind))]
    /\ vpc' = "notify"
    /\ UNCHANGED <<p_account, acc_name, cash, value, startingcash, startingvalue,
                   positions, lock_pos, lock_orders, orderbyid, notifs, sent>>
    /\ UNCHANGED caller
    /\ UNCHANGED request
    /\ UNCHANGED <<vev, border, vloc>>
    /\ UNCHANGED history

\* self.notify(border), and the handler returns
Notify ==
    /\ vpc = "notify"
    /\ notifs' = notify(notifs, border)
    /\ enq' = enq \o Added(notifs, notifs')
    /\ vpc' = "idle" /\ vev' = NoEvent /\ border' = NoOrder /\ vloc' = NoLocals
    /\ UNCHANGED <<p_account, acc_name, cash, value, startingcash, startingvalue,
                   positions, lock_pos, lock_orders, orderbyid, orders, sent>>
    /\ UNCHANGED caller
    /\ UNCHANGED request
    /\ UNCHANGED <<popped, evs, fillsum, run>>

(* ---------------------------- specifications --------------------------- *)
Ids == sent \cup ExtIds

Submitting ==
    \/ \E d \in Instruments, z \in OrderSizes, ok \in BOOLEAN : buy(d, z, ok)
    \/ \E d \in Instruments, z \in OrderSizes, ok \in BOOLEAN : sell(d, z, ok)
    \/ submit_insert
    \/ submit_unlock
    \/ submit_notify

Polling ==
    \/ next
    \/ get_notification

ReadingPosition ==
    \/ \E d \in Instruments : getposition(d)
    \/ getposition_return

Starting == \E bal \in Balances : Call(bal)

BalanceEvents ==
    \E a \in {Accounts[i] : i \in 1..Len(Accounts)}, bal \in Balances :
        OnChangedBalance(a, bal)

IgnoredEvents ==
    \/ \E k \in NoOpKinds : OnNoOp(k)
    \/ Pass

StatusEvents ==
    \/ \E oid \in Ids : OnOrderInMarket(oid)
    \/ \E oid \in Ids : OnCancelledOrder(oid)
    \/ Located
    \/ Accept
    \/ Cancel
    \/ Notify

FillEvents ==
    \/ \E oid \in Ids : OnPartialExecutedOrder(oid)
    \/ \E oid \in Ids : OnTotalExecutedOrder(oid)
    \/ \E q \in FillQuotes : ExecGetPosition(q[1], q[2])
    \/ ExecGotPosition
    \/ ExecUpdateSize
    \/ ExecUpdatePrice
    \/ Execute

Translating ==
    \E ordtype \in {"Buy", "Sell"}, d \in Instruments, z \in OrderSizes,
       price \in {None, Some(10)}, plimit \in {Some(15)},
       exectype \in Exectypes, valid \in Validities, tradeid \in {7},
       extra \in Extras, now \in Clock :
        MakeOrder(ordtype, d, z, price, plimit, exectype, valid, tradeid,
                  extra, now)

\* The adapter constructed with the default parameters (account=None)
InitDefault == Init /\ p_account = "None"

\* Orders, venue order events and fills
Next == Submitting \/ Starting \/ IgnoredEvents \/ StatusEvents \/ FillEvents
Spec == InitDefault /\ [][Next]_vars

\* The engine's tick (next, then the drain loop) beside the order events
NextNotify == Submitting \/ Starting \/ StatusEvents \/ FillEvents \/ Polling
SpecNotify == InitDefault /\ [][NextNotify]_vars

\* The caller reading positions while fills are applied
NextLedger == Submitting \/ Starting \/ StatusEvents \/ FillEvents \/ ReadingPosition
SpecLedger == InitDefault /\ [][NextLedger]_vars

\* Every account parameter, with balance events
NextAccounts == Submitting \/ Starting \/ BalanceEvents \/ StatusEvents
SpecAccounts == Init /\ [][NextAccounts]_vars

\* A long position is built by one buy order and closed by one sell order
\* of the same size, with up to MaxFills fills between them
CloseSize == 10
CloseQuotes == {<<10, 100>>, <<4, 110>>, <<6, 120>>}
MaxFills == 3

SubmittingClose ==
    \/ \E d \in Instruments : Len(orders) = 0 /\ buy(d, CloseSize, TRUE)
    \/ \E d \in Instruments : Len(orders) = 1 /\ sell(d, CloseSize, TRUE)
    \/ submit_insert
    \/ submit_unlock
    \/ submit_notify

FillEventsClose ==
    \/ \E oid \in sent : LocateWithin(MaxFills, "Partial", oid)
    \/ \E oid \in sent : LocateWithin(MaxFills, "Total", oid)
    \/ Located
    \/ \E q \in CloseQuotes : ExecGetPosition(q[1], q[2])
    \/ ExecGotPosition
    \/ ExecUpdateSize
    \/ ExecUpdatePrice
    \/ Execute
    \/ Notify

NextClose == SubmittingClose \/ Starting \/ FillEventsClose
SpecClose == InitDefault /\ [][NextClose]_vars

\* The translation of order intents into venue requests, after the start
NextTranslate == Starting \/ Translating
SpecTranslate == InitDefault /\ [][NextTranslate]_vars

(* ============================== properties ============================== *)
Range(f) == {f[k] : k \in DOMAIN f}
\* The statuses of the snapshots of order o in q, in queue order
StatusesOf(q, o) ==
    LET mine == SelectSeq(q, LAMBDA n : n.ord = o)
    IN  [k \in 1..Len(mine) |-> mine[k].status]
Terminal == {"Completed", "Cancelled"}
FillKinds == {"Partial", "Total"}

\* C1: the statuses an order's notifications carry never regress: nothing
\* but a terminal status follows a terminal status, Completed and Cancelled
\* never both appear, and Completed appears only after a fill of that order
\* was processed.
C1_StatusNeverRegresses ==
    \A o \in 1..Len(orders) :
        LET st == StatusesOf(enq, o)
        IN  /\ \A i, j \in 1..Len(st) :
                   i < j /\ st[i] \in Terminal =>
                       /\ st[j] \notin {"Submitted", "Accepted", "PartiallyFilled"}
                       /\ st[j] = st[i]
            /\ (\E i \in 1..Len(st) : st[i] = "Completed") =>
                   orders[o].executed # <<>>

\* C2: while the venue thread handles an order event whose identifier is
\* foreign to this adapter, none of its steps changes the ledger, cash, net
\* worth, the registry, the orders or the notification deque, and the
\* handler returns right after the lookup.
C2_UnknownIdentifierIgnored ==
    [][(StatusEvents \/ FillEvents) /\ (vev.oid \in ExtIds \/ vev'.oid \in ExtIds)
          => /\ UNCHANGED <<positions, cash, value, orderbyid, orders, notifs>>
             /\ vpc' \in {"located", "idle"}]_vars

\* C2 witness: the lookup of a foreign identifier missed while an order is
\* registered and notified
C2_Witness ==
    /\ vpc = "located" /\ vev.oid \in ExtIds /\ border = NoOrder
    /\ vev.kind = "Total"
    /\ DOMAIN orderbyid # {} /\ notifs # <<>>

\* C3: from the read of the prior average price to the end of the position
\* update the venue thread holds the ledger lock.
C3_UpdateUnderLedgerLock ==
    vpc \in {"update_price"} => lock_pos = "venue"

\* C4: a failed send returns an error to the caller at once and leaves the
\* registry and the deque as they were; an order whose send failed is never
\* registered and never notified.
C4_FailedSendLeavesNoTrace ==
    /\ [][(\E d \in Instruments, z \in OrderSizes :
              buy(d, z, FALSE) \/ sell(d, z, FALSE))
            => /\ cres' = "SendError" /\ cpc' = "idle"
               /\ UNCHANGED <<orderbyid, notifs>>]_vars
    /\ [](\A o \in 1..Len(orders) :
            orders[o].vcorder = NoId =>
                /\ o \notin Range(orderbyid)
                /\ o # cord
                /\ StatusesOf(enq, o) = <<>>)

\* C4 witness: a send failed after another order was registered and notified
C4_Witness ==
    /\ cres = "SendError" /\ cpc = "idle"
    /\ Len(orders) = 2 /\ orders[2].vcorder = NoId
    /\ Range(orderbyid) = {1} /\ StatusesOf(notifs, 1) # <<>>

NonSentinel(q) == SelectSeq(q, LAMBDA n : n # Sentinel)
\* 1 while the venue thread is inside a handler that found order o
InFlight(o) == IF border = o /\ vpc \notin {"start", "idle"} THEN 1 ELSE 0

\* C5: every successful submit and every event that finds its order
\* enqueues exactly one snapshot; snapshots leave the deque in the order they
\* entered it, each once; submit, then accepted, then a total fill leave the
\* snapshots Submitted, Accepted, Completed, in that order.
C5_OneSnapshotEachInOrder ==
    /\ enq = popped \o NonSentinel(notifs)
    /\ \A o \in 1..Len(orders) :
           /\ Len(StatusesOf(enq, o)) + InFlight(o) = Len(evs[o])
           /\ o \in Range(orderbyid) /\ cord # o
                  => Len(SelectSeq(evs[o], LAMBDA t : t = "Submit")) = 1
           /\ evs[o] = <<"Submit", "InMarket", "Total">> /\ InFlight(o) = 0
                  => StatusesOf(enq, o) = <<"Submitted", "Accepted", "Completed">>

\* C5 witness: one buy order, accepted and then filled for its whole size,
\* nothing popped yet: the deque holds exactly the three snapshots
C5_Witness ==
    /\ Len(orders) = 1 /\ vpc = "idle" /\ cpc = "idle"
    /\ evs[1] = <<"Submit", "InMarket", "Total">>
    /\ Len(orders[1].executed) = 1
    /\ orders[1].executed[1].size = orders[1].size
    /\ orders[1].status = "Completed"
    /\ popped = <<>>
    /\ notifs = <<[ord |-> 1, status |-> "Submitted"],
                  [ord |-> 1, status |-> "Accepted"],
                  [ord |-> 1, status |-> "Completed"]>>

\* C6: except while a fill that was read is still being written to the
\* ledger, each instrument's position size is the sum of the signed volumes
\* of the fills read so far for registered orders on it.
C6_SizeIsSumOfFills ==
    vpc \notin {"gotposition", "update_size"} =>
        \A i \in Instruments : positions[i].size = fillsum[i]

\* C6 witness: a buy fill of 5 and a sell fill of 8 were applied, and an
\* event for a foreign identifier is being dropped
C6_Witness ==
    /\ positions["X"].size = -3 /\ fillsum["X"] = -3
    /\ vpc = "located" /\ border = NoOrder

\* C7: the registry lock is held only between the registry access and the
\* end of its with block: by the caller only right after the insert, by the
\* venue thread only right after the lookup, hit or miss.
C7_RegistryLockOnlyAroundAccess ==
    /\ lock_orders = "caller" => cpc = "unlock"
    /\ lock_orders = "venue" => vpc = "located"
    /\ cpc = "unlock" => lock_orders = "caller"
    /\ vpc = "located" => lock_orders = "venue"

\* C7 witness: the caller holds the registry lock for an insert while the
\* venue thread is in the middle of a fill's accounting
C7_Witness ==
    /\ vpc = "update_price" /\ lock_orders = "caller" /\ cpc = "unlock"

\* C8: the fill entry a handler records splits the signed fill d against
\* the prior position s: closed is the part of d that brings s toward zero,
\* opened the rest, the new size s + d; closed is valued at the average price
\* read before the update, opened at the fill price.
C8_OpenedClosedSplit ==
    vpc = "notify" /\ vev.kind \in FillKinds =>
        LET bit == orders[border].executed[Len(orders[border].executed)]
            s == vloc.oldsize
            d == bit.size
            cmag == IF s > 0 /\ d < 0 THEN Min(-d, s)
                    ELSE IF s < 0 /\ d > 0 THEN Min(d, -s) ELSE 0
        IN  /\ d = (IF orders[border].side = "Sell" THEN -vev.vol ELSE vev.vol)
            /\ Abs(bit.closed) = cmag
            /\ bit.closed # 0 => (bit.closed < 0) = (d < 0)
            /\ bit.opened = d - bit.closed
            /\ bit.psize = s + d
            /\ positions[orders[border].data].size = s + d
            /\ bit.closedvalue.n * vloc.pprice_orig.d
                   = cmag * vloc.pprice_orig.n * bit.closedvalue.d
            /\ bit.openedvalue = RatInt(Abs(bit.opened) * vev.price)

\* C8 witness: long 5 at 100 receives a sell of 8 at 110: closed 5 at 100,
\* opened 3 at 110, position -3
C8_Witness ==
    /\ vpc = "notify" /\ vev.kind \in FillKinds
    /\ vloc.oldsize = 5 /\ vloc.pprice_orig = RatInt(100)
    /\ vloc.size = -8 /\ vev.price = 110
    /\ LET bit == orders[border].executed[Len(orders[border].executed)]
       IN  /\ bit.closed = -5 /\ bit.closedvalue = RatInt(500)
           /\ bit.opened = -3 /\ bit.openedvalue = RatInt(330)
    /\ positions["X"] = [size |-> -3, price |-> RatInt(110)]

\* C9: a balance event for an account that is not the selected one, or with
\* no account selected, changes neither cash nor net worth; one for the
\* selected account sets cash and net worth to the reported balance; either
\* way the registry, the orders, the ledger and the deque stay as they were.
C9_BalanceIsolation ==
    [][\A a \in {Accounts[i] : i \in 1..Len(Accounts)}, bal \in Balances :
          OnChangedBalance(a, bal) =>
              /\ (acc_name = "None" \/ a # acc_name) => UNCHANGED <<cash, value>>
              /\ (acc_name # "None" /\ a = acc_name) =>
                     cash' = bal.Cash /\ value' = bal.NetWorth
              /\ UNCHANGED <<orderbyid, orders, positions, notifs, acc_name,
                             startingcash, startingvalue>>]_vars

\* C9 witness: the selected account's balance moved after the start, with an
\* order registered and notified
C9_Witness ==
    /\ acc_name = "ACC2" /\ cash # startingcash /\ value # startingvalue
    /\ DOMAIN orderbyid # {} /\ notifs # <<>>

\* C10: every step of a cancelled or accepted-in-market handler leaves the
\* ledger, cash and net worth alone; the handler sets the status Cancelled
\* (Accepted) and its last step appends one snapshot carrying that status,
\* the only change it makes to the deque.
C10_CancelAndAcceptFrame ==
    [][(StatusEvents \/ FillEvents)
          /\ (vev.kind \in {"Cancelled", "InMarket"}
              \/ vev'.kind \in {"Cancelled", "InMarket"})
          => /\ UNCHANGED <<positions, cash, value>>
             /\ Cancel => /\ vev.kind = "Cancelled"
                          /\ orders'[border].status = "Cancelled"
             /\ Accept => /\ vev.kind = "InMarket"
                          /\ orders'[border].status = "Accepted"
             /\ IF Notify
                THEN notifs' = Append(notifs,
                         [ord |-> border,
                          status |-> IF vev.kind = "Cancelled"
                                     THEN "Cancelled" ELSE "Accepted"])
                ELSE notifs' = notifs]_vars

\* C10 witness: an order cancelled before any fill
C10_Witness ==
    /\ vpc = "idle" /\ Len(orders) = 1
    /\ evs[1] = <<"Submit", "Cancelled">>
    /\ orders[1].status = "Cancelled" /\ orders[1].executed = <<>>
    /\ positions["X"] = NoPosition
    /\ notifs = <<[ord |-> 1, status |-> "Submitted"],
                  [ord |-> 1, status |-> "Cancelled"]>>

LastBit(o) == orders[o].executed[Len(orders[o].executed)]
\* The buy order's single fill of 10 at 100 was applied to a flat position,
\* and then the sell order received 4 at 110 and 6 at 120
CloseScenario ==
    /\ Len(orders) = 2
    /\ Len(orders[1].executed) = 1
    /\ orders[1].executed[1].size = 10 /\ orders[1].executed[1].price = 100
    /\ orders[1].executed[1].psize = 10
    /\ evs[2] = <<"Submit", "Partial", "Total">>
    /\ Len(orders[2].executed) = 2
    /\ orders[2].executed[1].size = -4 /\ orders[2].executed[1].price = 110
    /\ orders[2].executed[2].size = -6 /\ orders[2].executed[2].price = 120

\* C11: when a handler has recorded a fill that opened nothing, the stored
\* average price is the one read before the update, and the recorded P&L is
\* the closed quantity times (fill price - prior average price); a partial
\* fill leaves the status PartiallyFilled, a total fill Completed.  From
\* (10, 100), a sell of 10 filled 4 at 110 and then 6 at 120 records
\* (6, 100), closed 4, pnl 40 and then size 0, closed 6, pnl 120, Completed.
C11_ReductionKeepsPriceAndPnl ==
    /\ vpc = "notify" /\ vev.kind \in FillKinds =>
           LET bit == LastBit(border)
               prior == vloc.pprice_orig
           IN  /\ bit.opened = 0 =>
                      /\ positions[orders[border].data].price = prior
                      /\ bit.pprice = prior
                      /\ Abs(bit.closed) = Abs(vev.vol)
               /\ bit.pnl.n * prior.d =
                      (-bit.closed) * (vev.price * prior.d - prior.n) * bit.pnl.d
               /\ orders[border].status = FillStatus(vev.kind)
               /\ vev.kind = "Partial" => orders[border].status = "PartiallyFilled"
               /\ vev.kind = "Total" => orders[border].status = "Completed"
    /\ CloseScenario =>
           LET b1 == orders[2].executed[1]
               b2 == orders[2].executed[2]
           IN  /\ b1.psize = 6 /\ b1.pprice = RatInt(100)
               /\ Abs(b1.closed) = 4 /\ b1.opened = 0
               /\ b1.pnl = RatInt(4 * (110 - 100))
               /\ b2.psize = 0
               /\ Abs(b2.closed) = 6 /\ b2.opened = 0
               /\ b2.pnl = RatInt(6 * (120 - 100))
               /\ vpc \in {"notify", "idle"} =>
                      /\ orders[2].status = "Completed"
                      /\ positions["X"].size = 0

\* C11 witness: the scenario has run to its end
C11_Witness ==
    /\ CloseScenario /\ vpc = "idle" /\ cpc = "idle"
    /\ orders[2].status = "Completed"
    /\ positions["X"].size = 0
    /\ StatusesOf(enq, 2) = <<"Submitted", "PartiallyFilled", "Completed">>

\* C12: outside the step between a fill's size write and its price write,
\* a position built since it was last flat by fills in one direction only,
\* of sizes s1..sn at prices p1..pn, has size s1+..+sn and average price
\* (s1*p1+..+sn*pn)/(s1+..+sn); fills from before the flat point do not count.
C12_WeightedAverage ==
    vpc # "update_price" =>
        \A i \in Instruments :
            run[i].pure /\ run[i].qty > 0 =>
                /\ Abs(positions[i].size) = run[i].qty
                /\ positions[i].price.n * run[i].qty
                       = run[i].cost * positions[i].price.d

\* C12 witness: long 10 at 100 was closed to flat by the sell order, and the
\* buy order then received 4 at 110: the average is 110, not a blend with 100
C12_Witness ==
    /\ vpc = "idle" /\ Len(orders) = 2
    /\ Len(orders[2].executed) = 1 /\ orders[2].executed[1].psize = 0
    /\ orders[2].executed[1].closed = -10
    /\ Len(orders[1].executed) = 2
    /\ orders[1].executed[1].psize = 10 /\ orders[1].executed[1].price = 100
    /\ orders[1].executed[2].psize = 4 /\ orders[1].executed[2].price = 110
    /\ run["X"] = [cost |-> 4 * 110, qty |-> 4, pure |-> TRUE]
    /\ positions["X"] = [size |-> 4, price |-> RatInt(110)]

\* Orders whose submit has passed the registry insert
Registered == {o \in 1..Len(orders) :
                 orders[o].vcorder # NoId /\ ~(cord = o /\ cpc = "insert")}

\* C13: every order that submit has registered carries a venue identifier
\* under which the registry holds that order; two orders never share an
\* identifier or a registry key; an order's identifier, once set, never
\* changes; no step removes or remaps a registry entry.
C13_RegistryIdentity ==
    /\ [](/\ \A o \in Registered :
                /\ orders[o].vcorder \in DOMAIN orderbyid
                /\ orderbyid[orders[o].vcorder] = o
          /\ Range(orderbyid) = Registered
          /\ \A k1, k2 \in DOMAIN orderbyid :
                orderbyid[k1] = orderbyid[k2] => k1 = k2
          /\ \A o1, o2 \in 1..Len(orders) :
                o1 # o2 /\ orders[o1].vcorder # NoId
                    => orders[o1].vcorder # orders[o2].vcorder)
    /\ [][/\ \A k \in DOMAIN orderbyid :
                k \in DOMAIN orderbyid' /\ orderbyid'[k] = orderbyid[k]
          /\ \A o \in 1..Len(orders) :
                orders'[o].vcorder = orders[o].vcorder]_vars

\* C13 witness: two orders registered under the identifiers 1 and 2, the
\* first one filled and the second one cancelled since
C13_Witness ==
    /\ cpc = "idle" /\ vpc = "idle"
    /\ DOMAIN orderbyid = {1, 2}
    /\ orderbyid[1] = 1 /\ orderbyid[2] = 2
    /\ orders[1].status = "Completed" /\ orders[2].status = "Cancelled"

\* C14: the handlers for order modification, new order location, changed
\* open positions, new closed operations, server shutdown and internal
\* events change nothing of the adapter from entry to return: registry,
\* orders and their statuses, ledger, cash, net worth, deque, account, locks.
C14_IgnoredCallbacksChangeNothing ==
    [][IgnoredEvents =>
          /\ UNCHANGED <<orderbyid, orders, positions, cash, value, notifs>>
          /\ UNCHANGED <<acc_name, startingcash, startingvalue, lock_pos,
                         lock_orders, sent>>
          /\ vev.kind = "OpenPositions" => positions' = positions]_vars

\* C14 witness: the venue thread is inside the handler of a position
\* snapshot while the ledger holds a position and orders are registered
C14_Witness ==
    /\ vpc = "pass" /\ vev.kind = "OpenPositions"
    /\ positions["X"].size # 0
    /\ DOMAIN orderbyid # {} /\ notifs # <<>>

AccountNames == {Accounts[i] : i \in 1..Len(Accounts)}

\* C16: __call__ selects the first account of the collection when no account
\* is configured and the account of the configured name when the collection
\* has it, and sets cash, net worth, starting cash and starting value to its
\* balance; with a configured name the collection lacks it selects nothing
\* and changes nothing, and from then on no account is ever selected, cash
\* and net worth stay 0 and every balance event leaves them alone.
C16_AccountSelection ==
    /\ [][\A bal \in Balances :
            Call(bal) =>
                /\ p_account = "None" =>
                       /\ acc_name' = Accounts[1]
                       /\ cash' = bal.Cash /\ startingcash' = bal.Cash
                       /\ value' = bal.NetWorth /\ startingvalue' = bal.NetWorth
                /\ p_account \in AccountNames =>
                       /\ acc_name' = p_account
                       /\ cash' = bal.Cash /\ startingcash' = bal.Cash
                       /\ value' = bal.NetWorth /\ startingvalue' = bal.NetWorth
                /\ p_account \notin AccountNames \cup {"None"} =>
                       /\ acc_name' = "None"
                       /\ UNCHANGED <<cash, value, startingcash, startingvalue>>]_vars
    /\ [](p_account \notin AccountNames \cup {"None"} =>
             /\ acc_name = "None"
             /\ cash = 0 /\ value = 0 /\ startingcash = 0 /\ startingvalue = 0)
    /\ [][p_account \notin AccountNames \cup {"None"} /\ BalanceEvents
             => UNCHANGED <<cash, value, acc_name>>]_vars

\* C16 witness: the session started with a configured account the venue
\* does not have, and orders were submitted and notified since
C16_Witness ==
    /\ p_account = "ACC9" /\ vpc = "idle"
    /\ acc_name = "None" /\ cash = 0 /\ value = 0
    /\ Len(orders) = 2 /\ cpc = "idle" /\ Len(notifs) >= 2

\* C17: whenever the venue thread has looked up the identifier of an event
\* and that identifier was returned by a successful send, the lookup found
\* the order.
C17_NoEventLostToSubmit ==
    vpc = "located" /\ vev.oid \in sent => border # NoOrder

\* C18: the first snapshot enqueued for an order is the one submit
\* enqueues, and it carries the status Submitted.
C18_SubmitSnapshotFirst ==
    \A o \in 1..Len(orders) :
        LET st == StatusesOf(enq, o)
        IN  st # <<>> => st[1] = "Submitted"

\* C19: while the caller drains the deque after next(), the deque is not
\* empty and still holds the end-of-tick mark; no pop ever raised; every pop
\* takes the mark or the snapshot of an existing order.
C19_PopNeverOnEmpty ==
    /\ [](polling =>
             /\ notifs # <<>>
             /\ \E k \in 1..Len(notifs) : notifs[k] = Sentinel)
    /\ [](cres # "IndexError")
    /\ [][get_notification =>
             /\ notifs # <<>>
             /\ notifs' = Tail(notifs)
             /\ \/ Head(notifs) = Sentinel
                \/ Head(notifs).ord \in 1..Len(orders)]_vars

\* C19 witness: in the middle of a drain, after a snapshot was popped, the
\* mark is at the head and the venue thread has enqueued a snapshot behind it
C19_Witness ==
    /\ polling /\ popped # <<>>
    /\ Len(notifs) = 2 /\ notifs[1] = Sentinel /\ notifs[2] # Sentinel
    /\ vpc = "notify"

RECURSIVE FilledVolume(_)
FilledVolume(bits) ==
    IF bits = <<>> THEN 0 ELSE Abs(Head(bits).size) + FilledVolume(Tail(bits))

\* C20: no fill is applied to the ledger for an order whose status is
\* Completed or Cancelled, and the volume applied for an order never exceeds
\* the order's size.
C20_NoFillAfterTerminal ==
    /\ vpc \in {"gotposition", "update_size", "update_price", "execute"} =>
           orders[border].status \notin Terminal
    /\ \A o \in 1..Len(orders) :
           FilledVolume(orders[o].executed) <= orders[o].size

====
